---- MODULE Spec2Model ----
(***************************************************************************)
(* Monotone diameter of a polytope graph (MonoDiamCode.py).                *)
(*                                                                         *)
(* The script extracts the edge directions of a polytope, lets an external *)
(* library enumerate the regions of the arrangement of their orthogonal    *)
(* hyperplanes, and for one vector per region orients the graph, finds the *)
(* sink, relaxes distances to it and keeps the largest distance seen.      *)
(*                                                                         *)
(* A vertex is its coordinate tuple, as in the script, which keys every    *)
(* dictionary by tuple(u).  Coordinates of vertices and of orientation     *)
(* vectors are integers; a normalised edge direction is a tuple of reduced *)
(* fractions <<numerator, denominator>>.                                   *)
(***************************************************************************)
EXTENDS Integers, Sequences, FiniteSets, TLC

VARIABLES Pverts, nbrs, edge_dirs, eu, ev, orientation_vecs, oi, monodiam,
          oridiams, sink, distances, dir_neighbors, i, no_change, ui, pc

vars == <<Pverts, nbrs, edge_dirs, eu, ev, orientation_vecs, oi, monodiam,
          oridiams, sink, distances, dir_neighbors, i, no_change, ui, pc>>

(***************************************************************************)
(* Bounds of the model.                                                    *)
(***************************************************************************)
\* orientation vectors have integer coordinates in -MaxCoord..MaxCoord
MaxCoord == 1

\* the core is run on lists of at most MaxOrientations arbitrary vectors
MaxOrientations == 2

\* the relaxation loop is run on every directed graph of at most MaxVerts vertices
MaxVerts == 3

(***************************************************************************)
(* Exact arithmetic on vectors.                                            *)
(***************************************************************************)
Abs(x) == IF x < 0 THEN -x ELSE x

RECURSIVE GCD(_, _)
GCD(a, b) == IF b = 0 THEN a ELSE GCD(b, a % b)

\* the rational n/d, d > 0, in lowest terms
Frac(n, d) == LET g == GCD(Abs(n), d) IN <<n \div g, d \div g>>

RECURSIVE SumTo(_, _)
SumTo(w, k) == IF k = 0 THEN 0 ELSE SumTo(w, k - 1) + w[k]

\* sum(list)
Sum(w) == SumTo(w, Len(w))

\* vector(u) - vector(v)
Sub(u, v) == [k \in DOMAIN u |-> u[k] - v[k]]

\* f.dot_product(x)
Dot(f, x) == Sum([k \in DOMAIN f |-> f[k] * x[k]])

\* sum([abs(x) for x in list(w)])
Norm1(w) == Sum([k \in DOMAIN w |-> Abs(w[k])])

\* w / sum([abs(x) for x in list(w)])
Normalize(w) == [k \in DOMAIN w |-> Frac(w[k], Norm1(w))]

\* the vector with only its first coordinate negated
NegFirst(d) == [k \in DOMAIN d |-> <<IF k = 1 THEN -d[k][1] ELSE d[k][1], d[k][2]>>]

\* -edge_dir
Neg(d) == [k \in DOMAIN d |-> <<-d[k][1], d[k][2]>>]

(***************************************************************************)
(* The polytopes the model is run on: vertices in P.vertices() order and   *)
(* the edges of the vertex-edge graph.                                     *)
(***************************************************************************)
Segment == [verts |-> << <<0>>, <<2>> >>,
            adj |-> { {<<0>>, <<2>>} }]

Triangle == [verts |-> << <<0, 0>>, <<2, 0>>, <<1, 1>> >>,
             adj |-> { {<<0, 0>>, <<2, 0>>}, {<<2, 0>>, <<1, 1>>}, {<<1, 1>>, <<0, 0>>} }]

Square == [verts |-> << <<0, 0>>, <<1, 0>>, <<1, 1>>, <<0, 1>> >>,
           adj |-> { {<<0, 0>>, <<1, 0>>}, {<<1, 0>>, <<1, 1>>},
                     {<<1, 1>>, <<0, 1>>}, {<<0, 1>>, <<0, 0>>} }]

Trapezoid == [verts |-> << <<0, 0>>, <<2, 0>>, <<1, 1>>, <<0, 1>> >>,
              adj |-> { {<<0, 0>>, <<2, 0>>}, {<<2, 0>>, <<1, 1>>},
                        {<<1, 1>>, <<0, 1>>}, {<<0, 1>>, <<0, 0>>} }]

Polytopes == {Segment, Triangle, Square, Trapezoid}

Range(s) == {s[k] : k \in DOMAIN s}

\* the orders in which a finite set can be listed
Orders(S) == {s \in [1..Cardinality(S) -> S] : Range(s) = S}

Neighbors(P, u) == {v \in Range(P.verts) : {u, v} \in P.adj}

RECURSIVE SortedBy(_, _)
SortedBy(S, order) ==
    IF S = {} THEN <<>>
    ELSE LET k == CHOOSE a \in DOMAIN order :
                      order[a] \in S /\ \A b \in DOMAIN order : order[b] \in S => a <= b
         IN <<order[k]>> \o SortedBy(S \ {order[k]}, order)

\* u.neighbors() lists the neighbours of u; here in P.vertices() order
NeighborsInOrder(P) == [u \in Range(P.verts) |-> SortedBy(Neighbors(P, u), P.verts)]

RECURSIVE NeighborOrdersOn(_, _)
NeighborOrdersOn(P, S) ==
    IF S = {} THEN {[u \in {} |-> <<>>]}
    ELSE LET u == CHOOSE x \in S : TRUE
         IN {(u :> o) @@ f : o \in Orders(Neighbors(P, u)), f \in NeighborOrdersOn(P, S \ {u})}

\* every way u.neighbors() may order the neighbours of each u
NeighborOrders(P) == NeighborOrdersOn(P, Range(P.verts))

(***************************************************************************)
(* Edge-direction extraction (lines 28-37).                                *)
(***************************************************************************)
\* line 33 without the test of the opposite vector
IsNewDirOneSided(dirs, d) == d \notin Range(dirs)

\* line 33: neither edge_dir nor -edge_dir is a key of edge_dirs
IsNewDir(dirs, d) == d \notin Range(dirs) /\ Neg(d) \notin Range(dirs)

\* lines 32-34: the body of the loop over the ordered pairs (u, v)
InsertDir(dirs, u, v) ==
    LET edge_dir == Normalize(Sub(u, v))
    IN IF IsNewDir(dirs, edge_dir) THEN Append(dirs, edge_dir) ELSE dirs

RECURSIVE ExtractFrom(_, _, _, _, _)
\* lines 28-34 from the pair at positions (a, b) on, as a function of the
\* traversal order verts of the vertices and nb of their neighbours
ExtractFrom(verts, nb, a, b, dirs) ==
    IF a > Len(verts) THEN dirs
    ELSE IF b > Len(nb[verts[a]]) THEN ExtractFrom(verts, nb, a + 1, 1, dirs)
    ELSE ExtractFrom(verts, nb, a, b + 1, InsertDir(dirs, verts[a], nb[verts[a]][b]))

\* one pass of the inner loop: "for v in u.neighbors()", with the loop's advance
ExtractEdge ==
    /\ pc = "extract"
    /\ eu <= Len(Pverts)
    /\ LET u == Pverts[eu]
           v == nbrs[u][ev]
       IN /\ edge_dirs' = InsertDir(edge_dirs, u, v)
          /\ IF ev < Len(nbrs[u])
             THEN eu' = eu /\ ev' = ev + 1
             ELSE eu' = eu + 1 /\ ev' = 1
    /\ UNCHANGED <<Pverts, nbrs, orientation_vecs, oi, monodiam, oridiams, sink,
                   distances, dir_neighbors, i, no_change, ui, pc>>

\* line 37: each direction becomes [tuple(edge_dir), 0]
PaddedDirs(dirs) == [k \in DOMAIN dirs |-> <<dirs[k], 0>>]

PadDirs ==
    /\ pc = "extract"
    /\ eu > Len(Pverts)
    /\ edge_dirs' = PaddedDirs(edge_dirs)
    /\ pc' = "regions"
    /\ UNCHANGED <<Pverts, nbrs, eu, ev, orientation_vecs, oi, monodiam, oridiams,
                   sink, distances, dir_neighbors, i, no_change, ui>>

\* the state before line 28, the main loop's variables not yet bound
InitProgram(verts, nb) ==
    /\ Pverts = verts
    /\ nbrs = nb
    /\ edge_dirs = <<>>
    /\ eu = 1
    /\ ev = 1
    /\ orientation_vecs = <<>>
    /\ oi = 0
    /\ monodiam = 0
    /\ oridiams = <<>>
    /\ sink = verts[1]
    /\ distances = [u \in Range(verts) |-> 0]
    /\ dir_neighbors = [u \in Range(verts) |-> <<>>]
    /\ i = 0
    /\ no_change = FALSE
    /\ ui = 1
    /\ pc = "extract"

\* extraction alone, on every polytope under every traversal order
InitExtract ==
    \E P \in Polytopes :
        \E verts \in Orders(Range(P.verts)) :
            \E nb \in NeighborOrders(P) : InitProgram(verts, nb)

NextExtract == ExtractEdge \/ PadDirs

SpecExtract == InitExtract /\ [][NextExtract]_vars

(***************************************************************************)
(* Region representatives (lines 57-62).  The arrangement and its regions  *)
(* come from the library; what the script relies on is one vector interior *)
(* to each region, that is, one vector per sign pattern on the hyperplane  *)
(* normals, orthogonal to none of them.                                    *)
(***************************************************************************)
\* the integer vectors of the model, of the dimension of the polytope
Box(dim) == [1..dim -> (-MaxCoord)..MaxCoord]

RECURSIVE ProdDen(_, _)
ProdDen(d, k) == IF k = 0 THEN 1 ELSE ProdDen(d, k - 1) * d[k][2]

\* the sign of f . d for a rational vector d
SignDot(f, d) ==
    LET L == ProdDen(d, Len(d))
        n == Sum([k \in DOMAIN d |-> f[k] * d[k][1] * (L \div d[k][2])])
    IN IF n > 0 THEN 1 ELSE IF n < 0 THEN -1 ELSE 0

SignPattern(f, planes) == [k \in DOMAIN planes |-> SignDot(f, planes[k][1])]

InteriorVecs(planes, dim) ==
    {f \in Box(dim) : \A k \in DOMAIN planes : SignDot(f, planes[k][1]) # 0}

RegionPatterns(planes, dim) == {SignPattern(f, planes) : f \in InteriorVecs(planes, dim)}

\* the lists edge_arrangement.regions() can give rise to: one interior vector
\* per region, the regions in any order
RegionLists(planes, dim) ==
    {s \in [1..Cardinality(RegionPatterns(planes, dim)) -> InteriorVecs(planes, dim)] :
        {SignPattern(s[k], planes) : k \in DOMAIN s} = RegionPatterns(planes, dim)}

\* lines 57-62, and line 67
Regions ==
    /\ pc = "regions"
    /\ orientation_vecs' \in RegionLists(edge_dirs, Len(Pverts[1]))
    /\ oi' = 0
    /\ monodiam' = 0
    /\ pc' = "loop"
    /\ UNCHANGED <<Pverts, nbrs, edge_dirs, eu, ev, oridiams, sink, distances,
                   dir_neighbors, i, no_change, ui>>

(***************************************************************************)
(* The loop over the orientation vectors (lines 70-127).                   *)
(***************************************************************************)
\* line 70: the next orientation vector, if there is one
NextOrientation ==
    /\ pc = "loop"
    /\ oi < Len(orientation_vecs)
    /\ oi' = oi + 1
    /\ pc' = "sink"
    /\ UNCHANGED <<Pverts, nbrs, edge_dirs, eu, ev, orientation_vecs, monodiam,
                   oridiams, sink, distances, dir_neighbors, i, no_change, ui>>

\* line 129: the loop has ended
Finish ==
    /\ pc = "loop"
    /\ oi = Len(orientation_vecs)
    /\ pc' = "done"
    /\ UNCHANGED <<Pverts, nbrs, edge_dirs, eu, ev, orientation_vecs, oi, monodiam,
                   oridiams, sink, distances, dir_neighbors, i, no_change, ui>>

orientation_vec == orientation_vecs[oi]

RECURSIVE ScanMax(_, _, _, _)
\* lines 75-78 from position k on
ScanMax(f, verts, k, currmax) ==
    IF k > Len(verts) THEN currmax
    ELSE ScanMax(f, verts, k + 1,
                 IF Dot(f, verts[k]) > Dot(f, currmax) THEN verts[k] ELSE currmax)

RECURSIVE ScanMin(_, _, _, _)
ScanMin(f, verts, k, currmin) ==
    IF k > Len(verts) THEN currmin
    ELSE ScanMin(f, verts, k + 1,
                 IF Dot(f, verts[k]) < Dot(f, currmin) THEN verts[k] ELSE currmin)

\* the scan with the comparison reversed
FindSource(f, verts) == ScanMin(f, verts, 1, verts[1])

\* lines 73-79
FindSink(f, verts) == ScanMax(f, verts, 1, verts[1])

SinkScan ==
    /\ pc = "sink"
    /\ sink' = FindSink(orientation_vec, Pverts)
    /\ pc' = "build"
    /\ UNCHANGED <<Pverts, nbrs, edge_dirs, eu, ev, orientation_vecs, oi, monodiam,
                   oridiams, distances, dir_neighbors, i, no_change, ui>>

\* line 100
Increases(f, u, v) == Dot(f, Sub(v, u)) > 0

\* lines 96-101
DirNeighbors(f, verts, nb) ==
    [u \in Range(verts) |-> SelectSeq(nb[u], LAMBDA v : Increases(f, u, v))]

\* every distance starts at 0
InitDistancesZero(verts, s) == [u \in Range(verts) |-> 0]

\* lines 93-95 and 104
InitDistances(verts, s) == [u \in Range(verts) |-> IF u = s THEN 0 ELSE Len(verts)]

\* lines 87-107
BuildGraph ==
    /\ pc = "build"
    /\ distances' = InitDistances(Pverts, sink)
    /\ dir_neighbors' = DirNeighbors(orientation_vec, Pverts, nbrs)
    /\ no_change' = FALSE
    /\ i' = 0
    /\ pc' = "round"
    /\ UNCHANGED <<Pverts, nbrs, edge_dirs, eu, ev, orientation_vecs, oi, monodiam,
                   oridiams, sink, ui>>

Min(S) == CHOOSE x \in S : \A y \in S : x <= y

Max(S) == CHOOSE x \in S : \A y \in S : x >= y

\* half as many rounds as vertices
HalfRounds(verts) == Len(verts) \div 2

\* line 110: range(len(Pverts))
NumRounds(verts) == Len(verts)

\* lines 110-113: the head of a round
RelaxRound ==
    /\ pc = "round"
    /\ IF i < NumRounds(Pverts) /\ ~no_change
       THEN /\ i' = i + 1
            /\ no_change' = TRUE
            /\ ui' = 1
            /\ pc' = "inner"
       ELSE /\ pc' = "fold"
            /\ UNCHANGED <<i, no_change, ui>>
    /\ UNCHANGED <<Pverts, nbrs, edge_dirs, eu, ev, orientation_vecs, oi, monodiam,
                   oridiams, sink, distances, dir_neighbors>>

\* lines 115-119 with the new distance one too small
RelaxAtNoStep(dist, dn, u) ==
    IF dn[u] # <<>>
    THEN LET comp == Min({dist[v] : v \in Range(dn[u])})
         IN IF dist[u] > comp THEN [dist EXCEPT ![u] = comp] ELSE dist
    ELSE dist

\* lines 115-119: the distances after vertex u is relaxed
RelaxAt(dist, dn, u) ==
    IF dn[u] # <<>>
    THEN LET comp == Min({dist[v] : v \in Range(dn[u])})
         IN IF dist[u] > comp + 1 THEN [dist EXCEPT ![u] = comp + 1] ELSE dist
    ELSE dist

\* lines 114-120: one pass of "for u in Pverts"
RelaxVertex ==
    /\ pc = "inner"
    /\ distances' = RelaxAt(distances, dir_neighbors, Pverts[ui])
    /\ no_change' = (no_change /\ distances' = distances)
    /\ IF ui < Len(Pverts)
       THEN ui' = ui + 1 /\ pc' = "inner"
       ELSE ui' = ui /\ pc' = "round"
    /\ UNCHANGED <<Pverts, nbrs, edge_dirs, eu, ev, orientation_vecs, oi, monodiam,
                   oridiams, sink, dir_neighbors, i>>

\* line 123
OriDiam(dist, verts) == Max({dist[v] : v \in Range(verts)})

\* the smaller of the two
KeepSmaller(m, oridiam) == IF oridiam < m THEN oridiam ELSE m

\* lines 126-127
KeepLarger(m, oridiam) == IF oridiam > m THEN oridiam ELSE m

\* lines 123-127; oridiams records the oridiam of every orientation so far
FoldDiameter ==
    /\ pc = "fold"
    /\ monodiam' = KeepLarger(monodiam, OriDiam(distances, Pverts))
    /\ oridiams' = Append(oridiams, OriDiam(distances, Pverts))
    /\ pc' = "loop"
    /\ UNCHANGED <<Pverts, nbrs, edge_dirs, eu, ev, orientation_vecs, oi, sink,
                   distances, dir_neighbors, i, no_change, ui>>

(***************************************************************************)
(* The whole script on the square.                                         *)
(***************************************************************************)
InitSquare == InitProgram(Square.verts, NeighborsInOrder(Square))

NextSquare == ExtractEdge \/ PadDirs \/ Regions \/ NextOrientation \/ SinkScan
              \/ BuildGraph \/ RelaxRound \/ RelaxVertex \/ FoldDiameter \/ Finish

SpecSquare == InitSquare /\ [][NextSquare]_vars

(***************************************************************************)
(* The loop of lines 64-129 as a function of the polytope graph and of any *)
(* list of orientation vectors.                                            *)
(***************************************************************************)
OrientationLists(dim) == UNION {[1..n -> Box(dim)] : n \in 0..MaxOrientations}

InitCore ==
    \E P \in Polytopes :
        /\ Pverts = P.verts
        /\ nbrs = NeighborsInOrder(P)
        /\ edge_dirs = PaddedDirs(ExtractFrom(Pverts, nbrs, 1, 1, <<>>))
        /\ eu = Len(Pverts) + 1
        /\ ev = 1
        /\ orientation_vecs \in OrientationLists(Len(P.verts[1]))
        /\ oi = 0
        /\ monodiam = 0
        /\ oridiams = <<>>
        /\ sink = Pverts[1]
        /\ distances = [u \in Range(Pverts) |-> 0]
        /\ dir_neighbors = [u \in Range(Pverts) |-> <<>>]
        /\ i = 0
        /\ no_change = FALSE
        /\ ui = 1
        /\ pc = "loop"

NextCore == NextOrientation \/ SinkScan \/ BuildGraph \/ RelaxRound \/ RelaxVertex
            \/ FoldDiameter \/ Finish

Spec == InitCore /\ [][NextCore]_vars

(***************************************************************************)
(* The relaxation loop of lines 106-120 on any directed graph: vertices    *)
(* <<1>> .. <<N>> relaxed in that order, any out-neighbourhoods, any sink. *)
(***************************************************************************)
LabelVerts(N) == [k \in 1..N |-> <<k>>]

\* the out-neighbour lists over a vertex set: every set of other vertices
OutLists(verts) ==
    [Range(verts) -> {SortedBy(S, verts) : S \in SUBSET Range(verts)}]

InitRelax ==
    \E N \in 1..MaxVerts :
        /\ Pverts = LabelVerts(N)
        /\ nbrs = [u \in Range(Pverts) |-> <<>>]
        /\ edge_dirs = <<>>
        /\ eu = 1
        /\ ev = 1
        /\ orientation_vecs = <<>>
        /\ oi = 0
        /\ monodiam = 0
        /\ oridiams = <<>>
        /\ sink \in Range(Pverts)
        /\ dir_neighbors \in {dn \in OutLists(Pverts) : \A u \in Range(Pverts) : u \notin Range(dn[u])}
        /\ distances = InitDistances(Pverts, sink)
        /\ i = 0
        /\ no_change = FALSE
        /\ ui = 1
        /\ pc = "round"

NextRelax == RelaxRound \/ RelaxVertex

SpecRelax == InitRelax /\ [][NextRelax]_vars

(***************************************************************************)
(* Relaxation: the claims.                                                 *)
(***************************************************************************)
Verts == Range(Pverts)

\* the vertices with an edge into S
Preds(dn, S) == {u \in DOMAIN dn : \E v \in S : v \in Range(dn[u])}

RECURSIVE RevBFS(_, _, _, _)
\* breadth-first search over the reversed graph: the vertices of frontier are at
\* distance d, those of seen at distance at most d
RevBFS(dn, frontier, seen, d) ==
    IF frontier = {} THEN [u \in {} |-> 0]
    ELSE LET next == Preds(dn, frontier) \ seen
         IN [u \in frontier |-> d] @@ RevBFS(dn, next, seen \cup next, d + 1)

\* the true distance to s of every vertex with a directed path to s
BFSDist(dn, s) == RevBFS(dn, {s}, {s}, 0)

RECURSIVE Descendants(_, _, _)
Descendants(dn, S, acc) ==
    LET next == (UNION {Range(dn[u]) : u \in S}) \ acc
    IN IF next = {} THEN acc ELSE Descendants(dn, next, acc \cup next)

\* the vertices reached from u by a path of at least one edge
ReachedFrom(dn, u) == Descendants(dn, {u}, {})

Acyclic(dn) == \A u \in DOMAIN dn : u \notin ReachedFrom(dn, u)

UniqueSink(dn, s) ==
    /\ \A u \in DOMAIN dn : (dn[u] = <<>>) <=> (u = s)
    /\ \A u \in DOMAIN dn : u = s \/ s \in ReachedFrom(dn, u)

RelaxationEnded == pc = "fold"

\* C1: on an acyclic graph with a unique sink that every vertex reaches, the
\* distances the relaxation loop leaves are those of a breadth-first search
\* from the sink over the reversed graph.
C1_RelaxationIsBFS ==
    (RelaxationEnded /\ Acyclic(dir_neighbors) /\ UniqueSink(dir_neighbors, sink))
        => distances = BFSDist(dir_neighbors, sink)

\* the loop has ended on such a graph after using every one of its N >= 3 rounds
C1_Witness ==
    /\ RelaxationEnded
    /\ Acyclic(dir_neighbors)
    /\ UniqueSink(dir_neighbors, sink)
    /\ Len(Pverts) >= 3
    /\ i = Len(Pverts)
    /\ \E u \in Verts : distances[u] = 2

RECURSIVE RoundFrom(_, _, _, _)
\* lines 114-119 from position k on, without the flag
RoundFrom(dist, dn, verts, k) ==
    IF k > Len(verts) THEN dist
    ELSE RoundFrom(RelaxAt(dist, dn, verts[k]), dn, verts, k + 1)

RECURSIVE Rounds(_, _, _, _)
\* r rounds, none skipped
Rounds(dist, dn, verts, r) ==
    IF r = 0 THEN dist ELSE Rounds(RoundFrom(dist, dn, verts, 1), dn, verts, r - 1)

\* C9: on any directed graph and any sink the loop ends within N rounds, in a
\* fixpoint of the relaxation; every vertex with a path to the sink holds its
\* true distance; and the map is the one N rounds without early exit leave.
C9_Fixpoint ==
    RelaxationEnded =>
        /\ i <= Len(Pverts)
        /\ \A u \in Verts :
              dir_neighbors[u] # <<>> =>
                  \A v \in Range(dir_neighbors[u]) : distances[u] <= 1 + distances[v]
        /\ \A u \in DOMAIN BFSDist(dir_neighbors, sink) :
              distances[u] = BFSDist(dir_neighbors, sink)[u]
        /\ distances = Rounds(InitDistances(Pverts, sink), dir_neighbors, Pverts, Len(Pverts))

\* the loop has ended by the early exit on a graph with a cycle, an edge out
\* of the sink, a vertex with no path to the sink and one at distance 1
C9_Witness ==
    /\ RelaxationEnded
    /\ i < Len(Pverts)
    /\ ~Acyclic(dir_neighbors)
    /\ dir_neighbors[sink] # <<>>
    /\ DOMAIN BFSDist(dir_neighbors, sink) # Verts
    /\ \E u \in Verts : distances[u] = 1

InRelaxation == pc \in {"round", "inner", "fold"}

DistancesInBounds ==
    InRelaxation =>
        /\ distances[sink] = 0
        /\ \A u \in Verts : distances[u] \in 0..Len(Pverts)
        /\ \A u \in DOMAIN BFSDist(dir_neighbors, sink) :
              distances[u] >= BFSDist(dir_neighbors, sink)[u]
        /\ \A u \in Verts \ DOMAIN BFSDist(dir_neighbors, sink) :
              distances[u] = Len(Pverts)

NeverIncreases ==
    (InRelaxation /\ InRelaxation') => \A u \in Verts : distances'[u] <= distances[u]

\* C10: during the relaxation loop no stored distance increases from one step
\* to the next; the sink's stays 0, every one stays in 0..N and at or above the
\* vertex's true distance to the sink (at N for a vertex with no path to it).
C10_MonotoneBounded == []DistancesInBounds /\ [][NeverIncreases]_vars

\* mid-loop: one distance has been lowered, another is still above its true value
C10_Witness ==
    /\ pc = "inner"
    /\ \E u \in Verts \ {sink} : distances[u] < Len(Pverts)
    /\ \E u \in DOMAIN BFSDist(dir_neighbors, sink) :
          distances[u] > BFSDist(dir_neighbors, sink)[u]

(***************************************************************************)
(* The loop over the orientations: the claims.                             *)
(***************************************************************************)
\* the directed diameter of the orientation f induces, by N full rounds
DiameterOf(f) ==
    OriDiam(Rounds(InitDistances(Pverts, FindSink(f, Pverts)),
                   DirNeighbors(f, Pverts, nbrs), Pverts, Len(Pverts)), Pverts)

\* the orientations folded so far
Folded == IF pc \in {"loop", "done"} THEN oi ELSE oi - 1

C3_AtMostNMinus1 == pc = "done" => monodiam <= Len(Pverts) - 1

\* the functional f takes the same value on two adjacent vertices or on two
\* vertices where it is maximal
HasTie(f) ==
    \E u \in Verts : \E v \in Verts \ {u} :
        /\ Dot(f, u) = Dot(f, v)
        /\ \/ v \in Range(nbrs[u])
           \/ \A w \in Verts : Dot(f, w) <= Dot(f, u)

\* C4: an orientation vector with a tie is rejected by the sink scan or the
\* graph construction; the relaxation never starts from a sink picked among
\* tied vertices.
C4_TieRejected == pc \in {"round", "inner", "fold"} => ~HasTie(orientation_vec)

\* C5: an orientation that leaves a vertex at the sentinel distance N aborts
\* the computation; N is never folded into the monotone diameter.
C5_SentinelNeverFolded == \A k \in DOMAIN oridiams : oridiams[k] # Len(Pverts)

\* C8: on the square, two edge directions and the four regions of their
\* arrangement, the reported monotone diameter is 2.
C8_SquareIsTwo ==
    pc = "done" =>
        /\ Len(edge_dirs) = 2
        /\ Len(orientation_vecs) = 4
        /\ monodiam = 2

\* the script has ended on the square with one orientation per quadrant
C8_Witness ==
    /\ pc = "done"
    /\ Range(Pverts) = Range(Square.verts)
    /\ {SignPattern(orientation_vecs[k], edge_dirs) : k \in DOMAIN orientation_vecs}
          = [1..2 -> {-1, 1}]

(***************************************************************************)
(* Edge directions: the claims.                                            *)
(***************************************************************************)
\* the polytope of the current state
CurrentP == [verts |-> Pverts,
             adj |-> UNION {{{u, v} : v \in Range(nbrs[u])} : u \in Range(Pverts)}]

\* the difference vectors of the edges, both ways round
EdgeVecs == UNION {{Sub(u, v) : v \in Range(nbrs[u])} : u \in Range(Pverts)}

\* two edges are parallel when every 2x2 minor of their difference vectors vanishes
Parallel(w, x) == \A a \in DOMAIN w : \A b \in DOMAIN w : w[a] * x[b] = w[b] * x[a]

ParallelismClasses == {{x \in EdgeVecs : Parallel(w, x)} : w \in EdgeVecs}

\* e is the rational vector -d
IsOpposite(d, e) == \A k \in DOMAIN d : e[k][1] = -d[k][1] /\ e[k][2] = d[k][2]

\* the rational vector w scaled to 1-norm 1
UnitDir(w) == [k \in DOMAIN w |-> Frac(w[k], Norm1(w))]

\* the canonical directions once extraction has ended
CanonicalDirs == {edge_dirs[k][1] : k \in DOMAIN edge_dirs}

\* C6: when extraction has ended, for every edge exactly one of its unit
\* direction d and -d is a canonical direction, every canonical direction is
\* the unit direction of an edge, no direction is kept twice, and there are as
\* many canonical directions as parallelism classes of edges.
C6_OneOfEachClass ==
    pc = "regions" =>
        /\ \A w \in EdgeVecs :
              /\ \E d \in CanonicalDirs : d = UnitDir(w) \/ IsOpposite(UnitDir(w), d)
              /\ ~(\E d \in CanonicalDirs : \E e \in CanonicalDirs :
                      d = UnitDir(w) /\ IsOpposite(d, e))
        /\ \A d \in CanonicalDirs : \E w \in EdgeVecs : d = UnitDir(w)
        /\ Len(edge_dirs) = Cardinality(CanonicalDirs)
        /\ Cardinality(CanonicalDirs) = Cardinality(ParallelismClasses)

\* extraction has ended on a polytope with two parallel edges of different lengths
C6_Witness ==
    /\ pc = "regions"
    /\ \E w \in EdgeVecs : \E x \in EdgeVecs : Parallel(w, x) /\ Norm1(x) # Norm1(w)
    /\ Len(edge_dirs) = 3

\* the canonical directions extraction yields under another traversal order
DirsUnder(verts, nb) == Range(ExtractFrom(verts, nb, 1, 1, <<>>))

SameUpToSign(S, T) ==
    /\ \A d \in S : \E e \in T : e = d \/ IsOpposite(d, e)
    /\ \A e \in T : \E d \in S : e = d \/ IsOpposite(e, d)

\* C7 as stated: every traversal order of the vertices and of their neighbours
\* yields the same set of retained vectors.
C7_SameSetAnyOrder ==
    pc = "regions" =>
        \A nb \in NeighborOrders(CurrentP) : \A verts \in Orders(Range(Pverts)) :
            DirsUnder(verts, nb) = CanonicalDirs

\* C7 amended: every traversal order yields the same number of retained
\* vectors, and the same vectors up to the sign of each.
C7_SameSetUpToSign ==
    pc = "regions" =>
        \A nb \in NeighborOrders(CurrentP) : \A verts \in Orders(Range(Pverts)) :
            LET other == DirsUnder(verts, nb)
            IN /\ SameUpToSign(other, CanonicalDirs)
               /\ Cardinality(other) = Cardinality(CanonicalDirs)

\* extraction has ended and another traversal order retains other vectors
C7_Witness ==
    /\ pc = "regions"
    /\ \E verts \in Orders(Range(Pverts)) : DirsUnder(verts, nbrs) # CanonicalDirs

====
